---- MODULE Spec2Model ----
\* Model of src/data/wargame.py: class WargameSimulationData, the scenario
\* generation pipeline (the constructor, the two parameter generators and
\* generate_conflict_scenarios) over numpy's process-wide random stream.
\*
\* Numbers.  np.random.uniform(lo, hi) is lo + (hi - lo) * u with u in [0, 1).
\* The model draws u = k / Res, k in 0 .. Res-1, and keeps every real value
\* exactly, as an integer count of 1/(100*Res): the literal 0.85 is written
\* 85 (hundredths) and the value v stands for v / (100 * Res).
\* numpy's generator (MT19937) is library code; the stream is modelled as a
\* deterministic generator with a state of Modulus values, one step per draw.
EXTENDS Integers, Sequences, FiniteSets, TLC

\* ---------------------------------------------------------------- bounds
MaxSeed == 1        \* seeds passed to the constructor: 0 .. MaxSeed
MaxCount == 2       \* largest num_scenarios argument
MaxOps == 5         \* public operations (constructions and calls) per run
MaxCalls == 2       \* generate_conflict_scenarios calls per run
Modulus == 65521    \* number of states of the modelled random stream
Res == 64           \* number of distinct values of one uniform sample u

Seeds == 0 .. MaxSeed
\* num_scenarios arguments: the boundary values and the largest one
Counts == {-1, 0, 1, MaxCount}

VARIABLES
    rng,                   \* numpy's global RandomState: [state, seed, pos]
    instances,             \* the WargameSimulationData objects constructed
    pc,                    \* position inside generate_conflict_scenarios
    self,                  \* the instance the current/last call runs on
    num_scenarios,         \* argument of the current/last call
    scenarios,             \* local list `scenarios`
    weapon_effectiveness,  \* local `weapon_effectiveness`
    national_capabilities, \* local `national_capabilities`
    iter,                  \* iterations of the for loop completed
    start,                 \* the stream at entry of the current/last call
    events,                \* what the current/last call did, in order
    prev,                  \* the public operation completed last
    returned,              \* the value returned last by a public method
    log,                   \* completed generate_conflict_scenarios calls
    nops                   \* public operations started

vars == <<rng, instances, pc, self, num_scenarios, scenarios,
          weapon_effectiveness, national_capabilities, iter, start, events,
          prev, returned, log, nops>>

\* ------------------------------------------------- the random stream
\* One step of the stream; pos counts the draws since the last seeding.
Advance(r) ==
    [state |-> (25173 * r.state + 13849) % Modulus,
     seed |-> r.seed,
     pos |-> r.pos + 1]

\* np.random.seed(seed): the stream restarts from a state fixed by the seed.
Seeded(seed) == [state |-> seed % Modulus, seed |-> seed, pos |-> 0]

\* The sample k (u = k / Res) the stream gives in state r.
Sample(r) == (r.state * Res) \div Modulus

\* np.random.uniform(lo, hi), lo and hi in hundredths, on the stream state
\* r reached by the draw; result in units of 1/(100*Res).
Uniform(lo, hi, r) == lo * Res + (hi - lo) * Sample(r)

\* np.random.randint(lo, hi): an integer of [lo, hi).
RandInt(lo, hi, r) == lo + ((hi - lo) * Sample(r)) \div Res

\* np.random.choice(options): one element, by a random index.
Choice(options, r) == options[RandInt(0, Len(options), r) + 1]

\* --------------------------------------------- the parameter generators
\* Mutant: the fighter_jets kill_probability is drawn from (0.5, 8.0).
generate_weapon_effectiveness_typo(r) ==
    LET r1 == Advance(r)
        r2 == Advance(r1)
        r3 == Advance(r2)
        r4 == Advance(r3)
        r5 == Advance(r4)
        r6 == Advance(r5)
        r7 == Advance(r6)
        r8 == Advance(r7)
        r9 == Advance(r8)
        r10 == Advance(r9)
        r11 == Advance(r10)
        r12 == Advance(r11)
        r13 == Advance(r12)
        r14 == Advance(r13)
    IN [value |->
          [tanks |->
             [accuracy |-> Uniform(60, 85, r1),
              kill_probability |-> Uniform(40, 70, r2),
              operational_range_km |-> Uniform(3000, 6000, r3)],
           artillery |->
             [accuracy |-> Uniform(50, 75, r4),
              kill_probability |-> Uniform(30, 60, r5),
              operational_range_km |-> Uniform(2000, 5000, r6)],
           fighter_jets |->
             [accuracy |-> Uniform(70, 90, r7),
              kill_probability |-> Uniform(50, 800, r8),
              operational_range_km |-> Uniform(150000, 300000, r9)],
           cyber_attacks |->
             [infrastructure_disruption_probability |-> Uniform(40, 70, r10),
              communication_system_compromise |-> Uniform(30, 60, r11),
              military_network_penetration |-> Uniform(20, 50, r12)],
           special_forces |->
             [mission_success_probability |-> Uniform(40, 70, r13),
              strategic_target_elimination |-> Uniform(30, 60, r14)]],
        rng |-> r14]

\* generate_weapon_effectiveness(): fourteen uniform draws, in the order the
\* dict literal evaluates them.  r is the stream before the call; the result
\* is the profile and the stream after the call.
generate_weapon_effectiveness(r) ==
    LET r1 == Advance(r)
        r2 == Advance(r1)
        r3 == Advance(r2)
        r4 == Advance(r3)
        r5 == Advance(r4)
        r6 == Advance(r5)
        r7 == Advance(r6)
        r8 == Advance(r7)
        r9 == Advance(r8)
        r10 == Advance(r9)
        r11 == Advance(r10)
        r12 == Advance(r11)
        r13 == Advance(r12)
        r14 == Advance(r13)
    IN [value |->
          [tanks |->
             [accuracy |-> Uniform(60, 85, r1),
              kill_probability |-> Uniform(40, 70, r2),
              operational_range_km |-> Uniform(3000, 6000, r3)],
           artillery |->
             [accuracy |-> Uniform(50, 75, r4),
              kill_probability |-> Uniform(30, 60, r5),
              operational_range_km |-> Uniform(2000, 5000, r6)],
           fighter_jets |->
             [accuracy |-> Uniform(70, 90, r7),
              kill_probability |-> Uniform(50, 80, r8),
              operational_range_km |-> Uniform(150000, 300000, r9)],
           cyber_attacks |->
             [infrastructure_disruption_probability |-> Uniform(40, 70, r10),
              communication_system_compromise |-> Uniform(30, 60, r11),
              military_network_penetration |-> Uniform(20, 50, r12)],
           special_forces |->
             [mission_success_probability |-> Uniform(40, 70, r13),
              strategic_target_elimination |-> Uniform(30, 60, r14)]],
        rng |-> r14]

\* generate_national_capabilities(): ten draws, an integer and four reals
\* for each of the two nations.
generate_national_capabilities(r) ==
    LET r1 == Advance(r)
        r2 == Advance(r1)
        r3 == Advance(r2)
        r4 == Advance(r3)
        r5 == Advance(r4)
        r6 == Advance(r5)
        r7 == Advance(r6)
        r8 == Advance(r7)
        r9 == Advance(r8)
        r10 == Advance(r9)
    IN [value |->
          [Nation_A |->
             [military_personnel |-> RandInt(500000, 1200000, r1),
              military_budget_billion_usd |-> Uniform(5000, 25000, r2),
              technological_readiness |-> Uniform(60, 90, r3),
              cyber_defense_capability |-> Uniform(40, 80, r4),
              supply_chain_resilience |-> Uniform(50, 90, r5)],
           Nation_B |->
             [military_personnel |-> RandInt(400000, 1000000, r6),
              military_budget_billion_usd |-> Uniform(4000, 20000, r7),
              technological_readiness |-> Uniform(50, 85, r8),
              cyber_defense_capability |-> Uniform(30, 70, r9),
              supply_chain_resilience |-> Uniform(40, 80, r10)]],
        rng |-> r10]

\* ------------------------------------------------- one scenario record
\* The dict literal of the loop body: nine draws in source order and eight
\* copies out of the snapshot we.
Scenario(r, we) ==
    LET r1 == Advance(r)
        r2 == Advance(r1)
        r3 == Advance(r2)
        r4 == Advance(r3)
        r5 == Advance(r4)
        r6 == Advance(r5)
        r7 == Advance(r6)
        r8 == Advance(r7)
        r9 == Advance(r8)
    IN [value |->
          [cyber_conflict_probability |-> Uniform(20, 50, r1),
           conventional_war_probability |-> Uniform(30, 60, r2),
           limited_engagement_probability |-> Uniform(10, 40, r3),
           initial_aggressor |-> Choice(<<"Nation_A", "Nation_B">>, r4),
           conflict_duration_days |-> Uniform(3000, 18000, r5),
           tank_effectiveness_A |-> we.tanks.kill_probability,
           artillery_effectiveness_A |-> we.artillery.kill_probability,
           jet_effectiveness_A |-> we.fighter_jets.kill_probability,
           tank_effectiveness_B |-> we.tanks.kill_probability,
           artillery_effectiveness_B |-> we.artillery.kill_probability,
           jet_effectiveness_B |-> we.fighter_jets.kill_probability,
           cyber_disruption_potential_A |->
               we.cyber_attacks.infrastructure_disruption_probability,
           cyber_disruption_potential_B |->
               we.cyber_attacks.infrastructure_disruption_probability,
           estimated_military_casualties_A |-> Uniform(500000, 10000000, r6),
           estimated_military_casualties_B |-> Uniform(500000, 10000000, r7),
           estimated_civilian_casualties |-> Uniform(1000000, 25000000, r8),
           economic_damage_billion_usd |-> Uniform(5000, 50000, r9)],
        rng |-> r9]

\* pd.DataFrame(list of dicts): one row per dict in list order, the columns
\* are the dicts' keys; an empty list gives a table without rows or columns.
DataFrame(list) ==
    [columns |-> IF list = <<>> THEN {} ELSE DOMAIN list[1],
     index |-> 0 .. Len(list) - 1,
     rows |-> list]

\* ------------------------------------------------------------ the state
\* No seed: below every seed np.random.seed accepts.
NoSeed == 0 - 1

Op(name, seed) == [op |-> name, seed |-> seed]

\* No object exists yet.  Before the first np.random.seed the global stream
\* holds a state numpy took from the operating system; no draw can read it,
\* since every method needs an object and every construction reseeds.
Init ==
    /\ rng = [state |-> 0, seed |-> NoSeed, pos |-> 0]
    /\ instances = {}
    /\ pc = "idle"
    /\ self = NoSeed
    /\ num_scenarios = 0
    /\ scenarios = <<>>
    /\ weapon_effectiveness = <<>>
    /\ national_capabilities = <<>>
    /\ iter = 0
    /\ start = rng
    /\ events = <<>>
    /\ prev = Op("none", NoSeed)
    /\ returned = [op |-> "none", value |-> <<>>]
    /\ log = <<>>
    /\ nops = 0

locals == <<self, num_scenarios, scenarios, weapon_effectiveness,
            national_capabilities, iter, start, events>>

\* --------------------------------------------------------- the actions
\* Mutant: __init__ without the np.random.seed(seed) call.
WargameSimulationData_unseeded(seed) ==
    /\ pc = "idle"
    /\ nops < MaxOps
    /\ rng' = rng
    /\ instances' = instances \cup {seed}
    /\ prev' = Op("construct", seed)
    /\ nops' = nops + 1
    /\ UNCHANGED <<pc, locals, returned, log>>

\* WargameSimulationData(seed): __init__ reseeds the process-wide stream and
\* stores nothing in the object.
WargameSimulationData(seed) ==
    /\ pc = "idle"
    /\ nops < MaxOps
    /\ rng' = Seeded(seed)
    /\ instances' = instances \cup {seed}
    /\ prev' = Op("construct", seed)
    /\ nops' = nops + 1
    /\ UNCHANGED <<pc, locals, returned, log>>

\* A caller invokes inst.generate_weapon_effectiveness() directly.
WeaponEffectivenessCall(inst) ==
    /\ pc = "idle"
    /\ nops < MaxOps
    /\ inst \in instances
    /\ LET g == generate_weapon_effectiveness(rng)
       IN /\ rng' = g.rng
          /\ returned' = [op |-> "generate_weapon_effectiveness",
                          value |-> g.value]
    /\ prev' = Op("generate_weapon_effectiveness", NoSeed)
    /\ nops' = nops + 1
    /\ UNCHANGED <<instances, pc, locals, log>>

\* A caller invokes inst.generate_national_capabilities() directly.
NationalCapabilitiesCall(inst) ==
    /\ pc = "idle"
    /\ nops < MaxOps
    /\ inst \in instances
    /\ LET g == generate_national_capabilities(rng)
       IN /\ rng' = g.rng
          /\ returned' = [op |-> "generate_national_capabilities",
                          value |-> g.value]
    /\ prev' = Op("generate_national_capabilities", NoSeed)
    /\ nops' = nops + 1
    /\ UNCHANGED <<instances, pc, locals, log>>

\* Mutant: each instance draws from a stream of its own seed, restarted at
\* the call, instead of the process-wide stream.
generate_conflict_scenarios_enter_own_stream(inst, n) ==
    /\ pc = "idle"
    /\ nops < MaxOps
    /\ Len(log) < MaxCalls
    /\ inst \in instances
    /\ pc' = "weapons"
    /\ self' = inst
    /\ num_scenarios' = n
    /\ scenarios' = <<>>
    /\ iter' = 0
    /\ rng' = Seeded(inst)
    /\ start' = Seeded(inst)
    /\ events' = <<>>
    /\ nops' = nops + 1
    /\ UNCHANGED <<instances, weapon_effectiveness,
                   national_capabilities, prev, returned, log>>

\* generate_conflict_scenarios(n) on inst, line 89: scenarios = [].
\* No check of n is made.
generate_conflict_scenarios_enter(inst, n) ==
    /\ pc = "idle"
    /\ nops < MaxOps
    /\ Len(log) < MaxCalls
    /\ inst \in instances
    /\ pc' = "weapons"
    /\ self' = inst
    /\ num_scenarios' = n
    /\ scenarios' = <<>>
    /\ iter' = 0
    /\ start' = rng
    /\ events' = <<>>
    /\ nops' = nops + 1
    /\ UNCHANGED <<rng, instances, weapon_effectiveness,
                   national_capabilities, prev, returned, log>>

\* line 90: weapon_effectiveness = self.generate_weapon_effectiveness()
generate_conflict_scenarios_weapons ==
    /\ pc = "weapons"
    /\ LET g == generate_weapon_effectiveness(rng)
       IN /\ rng' = g.rng
          /\ weapon_effectiveness' = g.value
    /\ events' = Append(events, "generate_weapon_effectiveness")
    /\ pc' = "capabilities"
    /\ UNCHANGED <<instances, self, num_scenarios, scenarios,
                   national_capabilities, iter, start, prev, returned, log,
                   nops>>

\* line 91: national_capabilities = self.generate_national_capabilities()
generate_conflict_scenarios_capabilities ==
    /\ pc = "capabilities"
    /\ LET g == generate_national_capabilities(rng)
       IN /\ rng' = g.rng
          /\ national_capabilities' = g.value
    /\ events' = Append(events, "generate_national_capabilities")
    /\ pc' = "loop"
    /\ UNCHANGED <<instances, self, num_scenarios, scenarios,
                   weapon_effectiveness, iter, start, prev, returned, log,
                   nops>>

\* Mutant: the loop runs over range(num_scenarios + 1).
generate_conflict_scenarios_iterate_inclusive ==
    /\ pc = "loop"
    /\ iter <= num_scenarios
    /\ LET g == Scenario(rng, weapon_effectiveness)
       IN /\ rng' = g.rng
          /\ scenarios' = Append(scenarios, g.value)
    /\ iter' = iter + 1
    /\ events' = Append(events, "scenario")
    /\ UNCHANGED <<instances, pc, self, num_scenarios, weapon_effectiveness,
                   national_capabilities, start, prev, returned, log, nops>>

\* Mutant: tank_effectiveness_B is copied from the artillery entry.
generate_conflict_scenarios_iterate_tank_b ==
    /\ pc = "loop"
    /\ iter < num_scenarios
    /\ LET g == Scenario(rng, weapon_effectiveness)
       IN /\ rng' = g.rng
          /\ scenarios' = Append(scenarios,
                 [g.value EXCEPT !.tank_effectiveness_B =
                      weapon_effectiveness.artillery.kill_probability])
    /\ iter' = iter + 1
    /\ events' = Append(events, "scenario")
    /\ UNCHANGED <<instances, pc, self, num_scenarios, weapon_effectiveness,
                   national_capabilities, start, prev, returned, log, nops>>

\* Mutant: the aggressor is chosen from a list with a third entry.
generate_conflict_scenarios_iterate_third_party ==
    /\ pc = "loop"
    /\ iter < num_scenarios
    /\ LET g == Scenario(rng, weapon_effectiveness)
       IN /\ rng' = g.rng
          /\ scenarios' = Append(scenarios,
                 [g.value EXCEPT !.initial_aggressor =
                      Choice(<<"Nation_A", "Nation_B", "Neutral">>,
                             Advance(Advance(Advance(Advance(rng)))))])
    /\ iter' = iter + 1
    /\ events' = Append(events, "scenario")
    /\ UNCHANGED <<instances, pc, self, num_scenarios, weapon_effectiveness,
                   national_capabilities, start, prev, returned, log, nops>>

\* Mutant: economic damage is drawn from (50, 5000).
generate_conflict_scenarios_iterate_damage_range ==
    /\ pc = "loop"
    /\ iter < num_scenarios
    /\ LET g == Scenario(rng, weapon_effectiveness)
       IN /\ rng' = g.rng
          /\ scenarios' = Append(scenarios,
                 [g.value EXCEPT !.economic_damage_billion_usd =
                      Uniform(5000, 500000, g.rng)])
    /\ iter' = iter + 1
    /\ events' = Append(events, "scenario")
    /\ UNCHANGED <<instances, pc, self, num_scenarios, weapon_effectiveness,
                   national_capabilities, start, prev, returned, log, nops>>

\* Mutant: the weapon-effectiveness profile is drawn again in every
\* iteration.
generate_conflict_scenarios_iterate_resample ==
    /\ pc = "loop"
    /\ iter < num_scenarios
    /\ LET g == Scenario(generate_weapon_effectiveness(rng).rng, weapon_effectiveness)
       IN /\ rng' = g.rng
          /\ scenarios' = Append(scenarios, g.value)
    /\ iter' = iter + 1
    /\ events' = events \o <<"generate_weapon_effectiveness", "scenario">>
    /\ UNCHANGED <<instances, pc, self, num_scenarios, weapon_effectiveness,
                   national_capabilities, start, prev, returned, log, nops>>

\* Mutant: the record is inserted at the front of the list.
generate_conflict_scenarios_iterate_prepend ==
    /\ pc = "loop"
    /\ iter < num_scenarios
    /\ LET g == Scenario(rng, weapon_effectiveness)
       IN /\ rng' = g.rng
          /\ scenarios' = <<g.value>> \o scenarios
    /\ iter' = iter + 1
    /\ events' = Append(events, "scenario")
    /\ UNCHANGED <<instances, pc, self, num_scenarios, weapon_effectiveness,
                   national_capabilities, start, prev, returned, log, nops>>

\* lines 93-125: one iteration of `for _ in range(num_scenarios)`.
generate_conflict_scenarios_iterate ==
    /\ pc = "loop"
    /\ iter < num_scenarios
    /\ LET g == Scenario(rng, weapon_effectiveness)
       IN /\ rng' = g.rng
          /\ scenarios' = Append(scenarios, g.value)
    /\ iter' = iter + 1
    /\ events' = Append(events, "scenario")
    /\ UNCHANGED <<instances, pc, self, num_scenarios, weapon_effectiveness,
                   national_capabilities, start, prev, returned, log, nops>>

\* line 127: range() is exhausted (at once when num_scenarios <= 0);
\* return pd.DataFrame(scenarios).
generate_conflict_scenarios_return ==
    /\ pc = "loop"
    /\ ~(iter < num_scenarios)
    /\ returned' = [op |-> "generate_conflict_scenarios",
                    value |-> DataFrame(scenarios)]
    /\ log' = Append(log, [self |-> self,
                           num_scenarios |-> num_scenarios,
                           prev |-> prev,
                           start |-> start,
                           end |-> rng,
                           table |-> DataFrame(scenarios)])
    /\ prev' = Op("generate_conflict_scenarios", NoSeed)
    /\ pc' = "idle"
    /\ UNCHANGED <<rng, instances, locals, nops>>

Next ==
    \/ \E seed \in Seeds : WargameSimulationData(seed)
    \/ \E inst \in Seeds : WeaponEffectivenessCall(inst)
    \/ \E inst \in Seeds : NationalCapabilitiesCall(inst)
    \/ \E inst \in Seeds, n \in Counts : generate_conflict_scenarios_enter(inst, n)
    \/ generate_conflict_scenarios_weapons
    \/ generate_conflict_scenarios_capabilities
    \/ generate_conflict_scenarios_iterate
    \/ generate_conflict_scenarios_return

Spec == Init /\ [][Next]_vars

\* ============================================================ properties
Range(seq) == {seq[j] : j \in 1 .. Len(seq)}

\* The last public operation completed is a generate_conflict_scenarios
\* call; the locals are those of that call and returned is its table.
Done == pc = "idle" /\ prev.op = "generate_conflict_scenarios"

\* The tables returned so far.
Tables == {log[j].table : j \in 1 .. Len(log)}

\* Every record built so far: in the list under construction and in the
\* tables returned.
Records == Range(scenarios) \cup UNION {Range(t.rows) : t \in Tables}

\* A value v (units of 1/(100*Res)) lies in [lo, hi] (hundredths).
Within(v, lo, hi) == lo * Res <= v /\ v <= hi * Res

\* The steps a running call still has to take: the statements before and
\* after the loop, and the iterations range(num_scenarios) has left.
Remaining ==
    (CASE pc = "weapons" -> 3
       [] pc = "capabilities" -> 2
       [] pc = "loop" -> 1
       [] OTHER -> 0)
    + (IF iter < num_scenarios THEN num_scenarios - iter ELSE 0)

\* C1: a call with count N >= 0 terminates (every step of a running call
\* lowers the number of steps it has left, and it never runs more than N
\* iterations) and returns a table of exactly N records (N = 0: the empty
\* table; N = 1: one record).
C1_Cardinality ==
    /\ [](/\ \A j \in 1 .. Len(log) :
                log[j].num_scenarios >= 0 =>
                    /\ Len(log[j].table.rows) = log[j].num_scenarios
                    /\ Cardinality(log[j].table.index) = log[j].num_scenarios
          /\ (Done /\ num_scenarios >= 0) =>
                /\ returned.op = "generate_conflict_scenarios"
                /\ Len(returned.value.rows) = num_scenarios
          /\ (pc # "idle" /\ num_scenarios >= 0) =>
                /\ iter <= num_scenarios
                /\ Len(scenarios) <= num_scenarios)
    /\ [][(pc # "idle" /\ num_scenarios >= 0) =>
              (Remaining' < Remaining /\ Remaining' >= 0)]_vars

C1_Witness ==
    \E j, k \in 1 .. Len(log) :
        /\ log[j].num_scenarios = 0
        /\ log[j].table.rows = <<>>
        /\ log[k].num_scenarios = 1
        /\ Len(log[k].table.rows) = 1

\* C2: a call with a negative count never returns a table.
C2_NegativeCountFails ==
    \A j \in 1 .. Len(log) : log[j].num_scenarios >= 0

\* A pipeline run: the call directly follows the construction of the
\* instance it runs on.
Pipeline(e) == e.prev = Op("construct", e.self)

\* C3: two pipeline runs (construct with a seed, then call once) with the
\* same seed and the same count return identical tables.
C3_Determinism ==
    \A j, k \in 1 .. Len(log) :
        (/\ Pipeline(log[j])
         /\ Pipeline(log[k])
         /\ log[j].self = log[k].self
         /\ log[j].num_scenarios = log[k].num_scenarios)
        => log[j].table = log[k].table

C3_Witness ==
    \E j, k \in 1 .. Len(log) :
        /\ j # k
        /\ Pipeline(log[j])
        /\ Pipeline(log[k])
        /\ log[j].self = log[k].self
        /\ log[j].num_scenarios = log[k].num_scenarios
        /\ log[j].num_scenarios >= 1

\* The effectiveness fields of record rec are copies of the snapshot we.
CopiesOf(rec, we) ==
    /\ rec.tank_effectiveness_A = we.tanks.kill_probability
    /\ rec.tank_effectiveness_B = we.tanks.kill_probability
    /\ rec.artillery_effectiveness_A = we.artillery.kill_probability
    /\ rec.artillery_effectiveness_B = we.artillery.kill_probability
    /\ rec.jet_effectiveness_A = we.fighter_jets.kill_probability
    /\ rec.jet_effectiveness_B = we.fighter_jets.kill_probability
    /\ rec.cyber_disruption_potential_A =
           we.cyber_attacks.infrastructure_disruption_probability
    /\ rec.cyber_disruption_potential_B =
           we.cyber_attacks.infrastructure_disruption_probability

\* C4: in every record of a call, tank_effectiveness_A = tank_effectiveness_B
\* = tanks.kill_probability of the call's one snapshot (likewise artillery,
\* jet and cyber disruption), so all records of a table share these values.
C4_SnapshotCopies ==
    /\ \A rec \in Range(scenarios) : CopiesOf(rec, weapon_effectiveness)
    /\ Done => \A rec \in Range(returned.value.rows) :
                   CopiesOf(rec, weapon_effectiveness)
    /\ \A t \in Tables : \A a, b \in Range(t.rows) :
          /\ a.tank_effectiveness_A = a.tank_effectiveness_B
          /\ a.tank_effectiveness_A = b.tank_effectiveness_A
          /\ a.tank_effectiveness_B = b.tank_effectiveness_B

C4_Witness ==
    /\ Done
    /\ Len(returned.value.rows) >= 2
    /\ returned.value.rows[1] # returned.value.rows[2]
    /\ returned.value.rows[2].tank_effectiveness_B =
           weapon_effectiveness.tanks.kill_probability

\* The declared metrics and intervals of a weapon-effectiveness profile.
InDeclaredIntervals(p) ==
    /\ DOMAIN p = {"tanks", "artillery", "fighter_jets", "cyber_attacks",
                   "special_forces"}
    /\ DOMAIN p.tanks = {"accuracy", "kill_probability", "operational_range_km"}
    /\ DOMAIN p.artillery = DOMAIN p.tanks
    /\ DOMAIN p.fighter_jets = DOMAIN p.tanks
    /\ DOMAIN p.cyber_attacks = {"infrastructure_disruption_probability",
                                 "communication_system_compromise",
                                 "military_network_penetration"}
    /\ DOMAIN p.special_forces = {"mission_success_probability",
                                  "strategic_target_elimination"}
    /\ Within(p.tanks.accuracy, 60, 85)
    /\ Within(p.tanks.kill_probability, 40, 70)
    /\ Within(p.tanks.operational_range_km, 3000, 6000)
    /\ Within(p.artillery.accuracy, 50, 75)
    /\ Within(p.artillery.kill_probability, 30, 60)
    /\ Within(p.artillery.operational_range_km, 2000, 5000)
    /\ Within(p.fighter_jets.accuracy, 70, 90)
    /\ Within(p.fighter_jets.kill_probability, 50, 80)
    /\ Within(p.fighter_jets.operational_range_km, 150000, 300000)
    /\ Within(p.cyber_attacks.infrastructure_disruption_probability, 40, 70)
    /\ Within(p.cyber_attacks.communication_system_compromise, 30, 60)
    /\ Within(p.cyber_attacks.military_network_penetration, 20, 50)
    /\ Within(p.special_forces.mission_success_probability, 40, 70)
    /\ Within(p.special_forces.strategic_target_elimination, 30, 60)

\* C5: every profile generate_weapon_effectiveness returns, to a direct
\* caller or to generate_conflict_scenarios, has exactly the five categories
\* with their metrics, each value inside its declared closed interval.
C5_ProfileInIntervals ==
    /\ returned.op = "generate_weapon_effectiveness" =>
           InDeclaredIntervals(returned.value)
    /\ weapon_effectiveness # <<>> => InDeclaredIntervals(weapon_effectiveness)

C5_Witness ==
    /\ returned.op = "generate_weapon_effectiveness"
    /\ prev.op = "generate_weapon_effectiveness"
    /\ rng.pos > 14
    /\ weapon_effectiveness # <<>>
    /\ weapon_effectiveness # returned.value

\* C6: initial_aggressor of every record is Nation_A or Nation_B.
C6_InitialAggressor ==
    \A rec \in Records : rec.initial_aggressor \in {"Nation_A", "Nation_B"}

C6_Witness ==
    /\ \E rec \in Records : rec.initial_aggressor = "Nation_A"
    /\ \E rec \in Records : rec.initial_aggressor = "Nation_B"

\* C7: every freshly sampled field of every record lies in its own range.
C7_SampledRanges ==
    \A rec \in Records :
        /\ Within(rec.conflict_duration_days, 3000, 18000)
        /\ Within(rec.economic_damage_billion_usd, 5000, 50000)
        /\ Within(rec.cyber_conflict_probability, 20, 50)
        /\ Within(rec.conventional_war_probability, 30, 60)
        /\ Within(rec.limited_engagement_probability, 10, 40)
        /\ Within(rec.estimated_military_casualties_A, 500000, 10000000)
        /\ Within(rec.estimated_military_casualties_B, 500000, 10000000)
        /\ Within(rec.estimated_civilian_casualties, 1000000, 25000000)

C7_Witness ==
    /\ Done
    /\ num_scenarios = MaxCount
    /\ Len(returned.value.rows) = MaxCount
    /\ \E a, b \in Range(returned.value.rows) :
           a.conflict_duration_days # b.conflict_duration_days

\* What a call has done after its two generator calls and n iterations.
RECURSIVE Iterations(_)
Iterations(n) == IF n <= 0 THEN <<>> ELSE Append(Iterations(n - 1), "scenario")

Prologue == <<"generate_weapon_effectiveness", "generate_national_capabilities">>

\* C8: a call with count N >= 0 invokes generate_weapon_effectiveness once,
\* then generate_national_capabilities once, both before the first record's
\* draws and never again, and consumes exactly 14 + 10 + 9*N draws.
C8_GeneratorsOnce ==
    /\ pc = "weapons" => events = <<>> /\ rng = start
    /\ pc = "capabilities" =>
          /\ events = <<"generate_weapon_effectiveness">>
          /\ rng.pos = start.pos + 14
    /\ (pc = "loop" \/ Done) =>
          /\ events = Prologue \o Iterations(iter)
          /\ rng.pos = start.pos + 14 + 10 + 9 * iter
    /\ (Done /\ num_scenarios >= 0) => iter = num_scenarios
    /\ \A j \in 1 .. Len(log) :
          log[j].num_scenarios >= 0 =>
              log[j].end.pos =
                  log[j].start.pos + 14 + 10 + 9 * log[j].num_scenarios

C8_Witness ==
    /\ Done
    /\ num_scenarios = MaxCount
    /\ events = Prologue \o Iterations(MaxCount)
    /\ rng.pos = start.pos + 24 + 9 * MaxCount

\* C9: while a call runs the table only grows at its end: an iteration
\* appends one record and leaves the records before it as they are, after
\* iteration k there are k records, and the table returned lists them in
\* that order.
C9_AppendOnly ==
    [][/\ (pc = "loop" /\ pc' = "loop") =>
             /\ Len(scenarios) = iter
             /\ iter' = iter + 1
             /\ Len(scenarios') = iter'
             /\ SubSeq(scenarios', 1, Len(scenarios)) = scenarios
       /\ (pc = "loop" /\ pc' = "idle") =>
             /\ scenarios' = scenarios
             /\ returned'.value.rows = scenarios
             /\ returned'.value.index = 0 .. Len(scenarios) - 1
       /\ (pc \in {"weapons", "capabilities"}) =>
             scenarios = <<>> /\ scenarios' = <<>>]_vars

C9_Witness ==
    /\ pc = "loop"
    /\ iter = 2
    /\ Len(scenarios) = 2
    /\ scenarios[1] # scenarios[2]

\* The parts of C10 that do not depend on which draws coincide.
\* (a) the instance a call runs on has no influence: a call made directly
\*     after WargameSimulationData(s2), on an instance of any seed, returns
\*     the table of a pipeline run with seed s2 and the same count;
\* (b) a call made directly after another call, without reseeding, starts
\*     on the stream where that call stopped and reads the next
\*     14 + 10 + 9*N draws of it.
SharedStream ==
    /\ \A j, k \in 1 .. Len(log) :
          (/\ log[j].prev.op = "construct"
           /\ Pipeline(log[k])
           /\ log[k].self = log[j].prev.seed
           /\ log[j].num_scenarios = log[k].num_scenarios)
          => log[j].table = log[k].table
    /\ \A j \in 1 .. Len(log) - 1 :
          log[j + 1].prev.op = "generate_conflict_scenarios" =>
              /\ log[j + 1].start = log[j].end
              /\ log[j + 1].num_scenarios >= 0 =>
                    log[j + 1].end.pos = log[j].end.pos + 14 + 10
                                         + 9 * log[j + 1].num_scenarios

\* Entry e is a call on an instance of seed s made after draws that followed
\* the last seeding, which was with s.
AfterDraws(e) == e.start.seed = e.self /\ e.start.pos > 0

\* C10 as stated: SharedStream, and a call with count N >= 0 made after any
\* draw that followed the construction of its instance returns a table that
\* differs from the one of the pipeline run with that seed and count.
C10_AsStated ==
    /\ SharedStream
    /\ \A j, k \in 1 .. Len(log) :
          (/\ AfterDraws(log[j])
           /\ Pipeline(log[k])
           /\ log[k].self = log[j].self
           /\ log[j].num_scenarios >= 0
           /\ log[j].num_scenarios = log[k].num_scenarios)
          => log[j].table # log[k].table

\* C10 amended: SharedStream, and a call made after d >= 1 draws that
\* followed the construction of its instance reads the draws d+1 ..
\* d+14+10+9*N of that seed's stream, where the pipeline run reads 1 ..
\* 14+10+9*N; for N = 0 both return the empty table.
C10_SharedStream ==
    /\ SharedStream
    /\ \A j, k \in 1 .. Len(log) :
          (/\ AfterDraws(log[j])
           /\ Pipeline(log[k])
           /\ log[k].self = log[j].self
           /\ log[j].num_scenarios >= 0
           /\ log[j].num_scenarios = log[k].num_scenarios)
          => /\ log[k].start.pos = 0
             /\ log[j].end.pos = log[k].end.pos + log[j].start.pos
             /\ log[j].num_scenarios = 0 => log[j].table = log[k].table

C10_Witness ==
    \E j, k \in 1 .. Len(log) :
        /\ log[j].prev.op = "construct"
        /\ log[j].prev.seed # log[j].self
        /\ Pipeline(log[k])
        /\ log[k].self = log[j].prev.seed
        /\ log[j].num_scenarios = log[k].num_scenarios
        /\ log[j].num_scenarios >= 1
        /\ log[j].table = log[k].table

====
